---- MODULE Spec2Model ----
(***************************************************************************)
(* Model of create_s3_user.py and delete_s3_user.py: two command-line      *)
(* scripts that provision and deprovision an IAM user whose read access is *)
(* scoped to the prefix "<user_name>/" of one S3 bucket.                    *)
(*                                                                         *)
(* Strings are sequences of one-character strings, so that concatenation,  *)
(* prefixes and the regular expression of is_valid_user_name are computed  *)
(* rather than assumed.  A literal of the source that is never taken apart *)
(* ("arn:aws:s3:::", "list", "get") is a single element.                   *)
(*                                                                         *)
(* A run of a script is a process p that advances one provider call at a   *)
(* time; every provider call may fail (raise ClientError).                 *)
(***************************************************************************)
EXTENDS Integers, Sequences, FiniteSets, TLC

VARIABLES
    users,      \* IAM: the names of the users of the account
    policies,   \* IAM: policy name -> the document registered under it
    attached,   \* IAM: the pairs <<user name, policy name>> attached
    keys,       \* IAM: the pairs <<user name, access key id>> issued
    buckets,    \* S3: the names of the buckets that exist
    objects,    \* S3: the pairs <<bucket name, object key>> stored
    files,      \* local directory: user name -> rows of {name}_accessKeys.csv
    run,        \* process -> the state of its run of a script
    prev,       \* what is remembered of the run that finished last
    vin, vout, vpc  \* a pure function applied on its own: input, output, stage

vars == <<users, policies, attached, keys, buckets, objects, files,
          run, prev, vin, vout, vpc>>

pure == <<vin, vout, vpc>>

provider == <<users, policies, attached, keys, buckets, objects>>

-----------------------------------------------------------------------------
(* Bounds *)

\* longest string given to is_valid_user_name in SpecValid
MaxLen == 3
\* access key ids the provider can issue to one user
MaxKeyId == 1

-----------------------------------------------------------------------------
(* Strings *)

UPPER == {"A","B","C","D","E","F","G","H","I","J","K","L","M",
          "N","O","P","Q","R","S","T","U","V","W","X","Y","Z"}
LOWER == {"a","b","c","d","e","f","g","h","i","j","k","l","m",
          "n","o","p","q","r","s","t","u","v","w","x","y","z"}
DIGIT == {"0","1","2","3","4","5","6","7","8","9"}

\* the characters the strings of SpecValid are made of
Alphabet == {"a", "Z", "7", "_", "-", " ", "/", ".", "\n"}

Strings(n) == UNION {[1..k -> Alphabet] : k \in 0..n}

StartsWith(s, prefix) ==
    /\ Len(s) >= Len(prefix)
    /\ \A i \in 1..Len(prefix) : s[i] = prefix[i]

-----------------------------------------------------------------------------
(* create_s3_user.py: is_valid_user_name *)

\* the character class [A-Za-z0-9_-] of the pattern
CharClass == UPPER \cup LOWER \cup DIGIT \cup {"_", "-"}

\* where "$" matches having consumed k characters of s: at the end of the
\* string, and just before a newline that is the last character
DollarMatches(s, k) ==
    \/ k = Len(s)
    \/ k = Len(s) - 1 /\ s[Len(s)] = "\n"

\* re.match("^[A-Za-z0-9_-]+$", s): some k >= 1 leading characters are all in
\* the class and "$" matches after them
ReMatch(s) ==
    \E k \in 1..Len(s) :
        /\ \A i \in 1..k : s[i] \in CharClass
        /\ DollarMatches(s, k)

is_valid_user_name(user_name) == IF ReMatch(user_name) THEN TRUE ELSE FALSE

-----------------------------------------------------------------------------
(* create_s3_user.py: create_policy, the document it builds *)

ArnPrefix == <<"arn:aws:s3:::">>

\* f'{user_name}/'
user_folder(user_name) == user_name \o <<"/">>

\* the get resource without the user folder
resource_arn_whole_bucket(actions, bucket_name, user_name) ==
    IF actions = "s3:GetObject"
    THEN ArnPrefix \o bucket_name \o <<"/", "*">>
    ELSE ArnPrefix \o bucket_name

resource_arn(actions, bucket_name, user_name) ==
    IF actions = "s3:GetObject"
    THEN ArnPrefix \o bucket_name \o <<"/">> \o user_name \o <<"/", "*">>
    ELSE ArnPrefix \o bucket_name

\* the statement dictionary of policy_doc before the condition is added
Statement(actions, bucket_name, user_name) ==
    [Effect |-> "Allow", Action |-> actions,
     Resource |-> resource_arn(actions, bucket_name, user_name)]

Condition(user_name) ==
    [StringEquals |->
        ("s3:prefix" :> << <<>>, user_folder(user_name) >>)
        @@ ("s3:delimiter" :> << <<"/">> >>)]

\* policy_doc, with Statement[0] updated by the condition for s3:ListBucket
policy_doc(actions, bucket_name, user_name) ==
    [Version |-> "2012-10-17",
     Statement |->
        << IF actions = "s3:ListBucket"
           THEN Statement(actions, bucket_name, user_name)
                @@ [Condition |-> Condition(user_name)]
           ELSE Statement(actions, bucket_name, user_name) >>]

\* json.dumps of a string: quotes around it, with the quote, the backslash
\* and the newline escaped
RECURSIVE JsonEscape(_)
JsonEscape(s) ==
    IF s = <<>> THEN <<>>
    ELSE (CASE Head(s) = "\n" -> <<"\\", "n">>
            [] Head(s) = "\"" -> <<"\\", "\"">>
            [] Head(s) = "\\" -> <<"\\", "\\">>
            [] OTHER -> <<Head(s)>>) \o JsonEscape(Tail(s))

JsonString(s) == <<"\"">> \o JsonEscape(s) \o <<"\"">>

\* json.dumps(policy_doc): the text handed to the provider
JsonDumps(doc) ==
    LET st == doc.Statement[1]
        head == <<"{">> \o JsonString(<<"Version">>) \o <<":">>
                  \o JsonString(<<doc.Version>>) \o <<",">>
                  \o JsonString(<<"Statement">>) \o <<":", "[", "{">>
                  \o JsonString(<<"Effect">>) \o <<":">>
                  \o JsonString(<<st.Effect>>) \o <<",">>
                  \o JsonString(<<"Action">>) \o <<":">>
                  \o JsonString(<<st.Action>>) \o <<",">>
                  \o JsonString(<<"Resource">>) \o <<":">>
                  \o JsonString(st.Resource)
        cond == IF "Condition" \in DOMAIN st
                THEN <<",">> \o JsonString(<<"Condition">>) \o <<":", "{">>
                       \o JsonString(<<"StringEquals">>) \o <<":", "{">>
                       \o JsonString(<<"s3:prefix">>) \o <<":", "[">>
                       \o JsonString(st.Condition.StringEquals["s3:prefix"][1])
                       \o <<",">>
                       \o JsonString(st.Condition.StringEquals["s3:prefix"][2])
                       \o <<"]", ",">>
                       \o JsonString(<<"s3:delimiter">>) \o <<":", "[">>
                       \o JsonString(st.Condition.StringEquals["s3:delimiter"][1])
                       \o <<"]", "}", "}">>
                ELSE <<>>
    IN head \o cond \o <<"}", "]", "}">>

-----------------------------------------------------------------------------
(* The names the runs are given *)

B1 == <<"b">>
B2 == <<"b", "2">>
Buckets == {B1, B2}
\* the bucket that may be missing
Transient == {B1}

U1 == <<"u">>
\* a name with a path separator, which the grammar rejects
BadName == <<"u", "/">>
UserArgs == {U1, BadName}

\* the object keys a bucket is populated with: one under "u/", one under the
\* sibling prefix "u2/", and the key "u" itself
ObjectKeys == { <<"u", "/", "x">>, <<"u", "2", "/", "x">>, <<"u">> }

KeyIds == 1..MaxKeyId

Procs == {"p1", "p2"}

\* s3_user_utils.user_policy_name(user_name, kind): "{name}-list", "{name}-get"
user_policy_name(user_name, kind) == user_name \o <<"-", kind>>

PolicyKinds == <<"list", "get">>

ActionOf(kind) == IF kind = "list" THEN "s3:ListBucket" ELSE "s3:GetObject"

\* a policy somebody else registered under one of the deterministic names
ForeignDocument == <<"{", "}">>

-----------------------------------------------------------------------------
(* The state of one run (one process) *)

Snapshot ==
    [users |-> users, policies |-> policies, attached |-> attached,
     keys |-> keys, buckets |-> buckets, objects |-> objects, files |-> files]

NoSnapshot ==
    [users |-> {}, policies |-> <<>>, attached |-> {}, keys |-> {},
     buckets |-> {}, objects |-> {}, files |-> <<>>]

\* what is remembered of the run that finished last
NoPrev ==
    [script |-> "none", bucket_name |-> <<>>, user_name |-> <<>>,
     result |-> "none", made |-> FALSE]

IdleRun ==
    [pc |-> "idle", script |-> "none", argv_ok |-> TRUE,
     bucket_name |-> <<>>, user_name |-> <<>>,
     stdout |-> <<>>, stderr |-> <<>>, status |-> <<>>,
     faulted |-> FALSE, made |-> FALSE,
     calls |-> <<>>, warnings |-> {}, built |-> <<>>,
     kind |-> 0, all_keys_for_user |-> {}, listed_policies |-> {},
     key_pair |-> <<>>, pre |-> NoSnapshot, after |-> NoPrev]

SuccessLine == <<"Success!", "">>
ErrorLine(message) == <<"ERROR. Exiting.", message>>

Result(r) ==
    IF r.pc # "done" THEN "none"
    ELSE IF r.stdout = <<SuccessLine>> THEN "Success"
    ELSE IF r.stdout # <<>> /\ r.stdout[Len(r.stdout)][1] = "ERROR. Exiting."
         THEN "Error"
    ELSE "Usage"

Summary(r) ==
    [script |-> r.script, bucket_name |-> r.bucket_name,
     user_name |-> r.user_name, result |-> Result(r), made |-> r.made]

Call(r, name) == [r EXCEPT !.calls = Append(@, name)]
Warn(r, what) == [r EXCEPT !.warnings = @ \cup {what}]
Goto(r, label) == [r EXCEPT !.pc = label]

-----------------------------------------------------------------------------
(* How a run ends: print, exit_program, and the try/except/else *)

\* exit(0) in exit_program
ExitStatus == 0
\* the status argparse exits with when a required argument is missing
UsageStatus == 2

Emit(r, line) == [r EXCEPT !.stdout = Append(@, line)]

\* the process ends with this exit status
End(r, code) == [r EXCEPT !.pc = "done", !.status = <<code>>]

\* exit_program up to its exit(0): the ERROR line is printed
exit_program(r, message) == Emit(r, ErrorLine(message))

\* a bare "except:", which catches the SystemExit of exit_program too
ExceptCatchesAll(exc) == TRUE

\* "except Exception": SystemExit is a BaseException and passes through
ExceptCatches(exc) == exc = "Exception"

\* an exception leaves the try body: the except clause runs exit_program for
\* the ones it catches; exit(0) then ends the process either way
Leave(r, exc) ==
    IF ExceptCatches(exc)
    THEN End(exit_program(r, "Error of type"), ExitStatus)
    ELSE End(r, ExitStatus)

\* exit_program(message) called inside the try body
ExitInTry(r, message) == Leave(exit_program(r, message), "SystemExit")

\* a provider call raises inside the try body
RaiseInTry(r) == Leave(r, "Exception")

\* a provider call fails for a reason of the provider's own
Fault(r) == RaiseInTry([r EXCEPT !.faulted = TRUE])

\* the else clause: print('Success!') and the script returns
Succeed(r) == End(Emit(r, SuccessLine), ExitStatus)

\* parser.parse_args() with a required argument missing: usage on stderr
ParseError(r) == End([r EXCEPT !.stderr = <<"usage">>], UsageStatus)

\* the run p moves on to r; a run that has ended is the one that finished last
Set(p, r) ==
    /\ run' = [run EXCEPT ![p] = r]
    /\ prev' = IF r.pc = "done" THEN Summary(r) ELSE prev

-----------------------------------------------------------------------------
(* Initial state *)

PopulatedObjects(bs) == bs \X ObjectKeys

Init ==
    /\ users = {}
    /\ \E taken \in {{}, {user_policy_name(U1, "get")}} :
          policies = [n \in taken |-> ForeignDocument]
    /\ attached = {}
    /\ keys = {}
    /\ buckets \in {Buckets \ gone : gone \in SUBSET Transient}
    /\ objects = PopulatedObjects(buckets)
    /\ files = <<>>
    /\ run = [p \in Procs |-> IdleRun]
    /\ prev = NoPrev
    /\ vin = <<>>
    /\ vout = <<>>
    /\ vpc = "unused"


-----------------------------------------------------------------------------
(* s3_user_utils: what the provider answers *)

bucket_exists(bucket_name) == bucket_name \in buckets

list_users == users

list_policies == DOMAIN policies

list_keys(user_name) == {id \in KeyIds : <<user_name, id>> \in keys}

\* the requests the provider rejects (the wrapper re-raises the error)
create_user_rejected(user_name) == user_name \in users

create_policy_rejected(policy_name) == policy_name \in DOMAIN policies

attach_policy_rejected(user_name, policy_name) ==
    user_name \notin users \/ policy_name \notin DOMAIN policies

create_key_rejected(user_name) ==
    user_name \notin users \/ list_keys(user_name) = KeyIds

list_keys_rejected(user_name) == user_name \notin users

delete_key_rejected(user_name, id) == <<user_name, id>> \notin keys

detach_policy_rejected(user_name, policy_name) ==
    <<user_name, policy_name>> \notin attached

delete_policy_rejected(policy_name) == policy_name \notin DOMAIN policies

delete_user_rejected(user_name) == user_name \notin users

-----------------------------------------------------------------------------
(* Starting a run: lines 35-52 of either script (logging, argparse) *)

\* a deprovisioning run that validates the bucket first, as provisioning does
BeginBucketFirst(p, script, b, u) ==
    /\ Set(p, [IdleRun EXCEPT !.script = script,
                              !.bucket_name = b, !.user_name = u,
                              !.pre = Snapshot, !.after = prev,
                              !.pc = IF script = "create"
                                     THEN "c_bucket_exists" ELSE "d_bucket_exists"])
    /\ UNCHANGED <<provider, files, pure>>

\* the run p starts as `script` with both arguments given
Begin(p, script, b, u) ==
    /\ Set(p, [IdleRun EXCEPT !.script = script,
                              !.bucket_name = b, !.user_name = u,
                              !.pre = Snapshot, !.after = prev,
                              !.pc = IF script = "create"
                                     THEN "c_bucket_exists" ELSE "d_list_keys"])
    /\ UNCHANGED <<provider, files, pure>>

\* the run p starts with a required argument missing: parse_args() exits
BeginNoArgs(p, script) ==
    /\ Set(p, ParseError([IdleRun EXCEPT !.script = script, !.argv_ok = FALSE,
                                         !.pre = Snapshot, !.after = prev]))
    /\ UNCHANGED <<provider, files, pure>>

NoRunInProgress == \A q \in Procs : run[q].pc \in {"idle", "done"}

-----------------------------------------------------------------------------
(* create_s3_user.py: create_s3_user, lines 54-82 *)

\* the grammar check alone, the bucket check left out
c_bucket_unchecked(p) ==
    LET r == Call(run[p], "bucket_exists") IN
    /\ run[p].pc = "c_bucket_exists"
    /\ Set(p, IF ~is_valid_user_name(r.user_name)
              THEN ExitInTry(r, "Invalid user name")
              ELSE Goto(r, "c_list_users"))
    /\ UNCHANGED <<provider, files, pure>>

\* lines 56-59: the bucket check, then the grammar check
c_bucket_exists(p) ==
    LET r == Call(run[p], "bucket_exists") IN
    /\ run[p].pc = "c_bucket_exists"
    /\ \/ Set(p, Fault(r))
       \/ Set(p, ExitInTry([r EXCEPT !.faulted = TRUE], "Bucket does not exist"))
       \/ Set(p, IF ~bucket_exists(r.bucket_name)
                 THEN ExitInTry(r, "Bucket does not exist")
                 ELSE IF ~is_valid_user_name(r.user_name)
                 THEN ExitInTry(r, "Invalid user name")
                 ELSE Goto(r, "c_list_users"))
    /\ UNCHANGED <<provider, files, pure>>

\* lines 62-64
c_list_users(p) ==
    LET r == Call(run[p], "list_users") IN
    /\ run[p].pc = "c_list_users"
    /\ \/ Set(p, Fault(r))
       \/ Set(p, IF r.user_name \in list_users
                 THEN ExitInTry(r, "This user already exists")
                 ELSE Goto(r, "c_create_user"))
    /\ UNCHANGED <<provider, files, pure>>

\* the error of create_user swallowed: the run goes on to the policies
c_create_user_unguarded(p) ==
    LET r == Call(run[p], "create_user") IN
    /\ run[p].pc = "c_create_user"
    /\ \/ Set(p, Fault(r)) /\ UNCHANGED users
       \/ /\ create_user_rejected(r.user_name)
          /\ Set(p, [Goto(r, "c_policy_exists") EXCEPT !.kind = 1])
          /\ UNCHANGED users
       \/ /\ ~create_user_rejected(r.user_name)
          /\ users' = users \cup {r.user_name}
          /\ Set(p, [Goto(r, "c_policy_exists") EXCEPT !.made = TRUE, !.kind = 1])
    /\ UNCHANGED <<policies, attached, keys, buckets, objects, files, pure>>

\* line 67; the provider rejects a name that exists
c_create_user(p) ==
    LET r == Call(run[p], "create_user") IN
    /\ run[p].pc = "c_create_user"
    /\ \/ Set(p, Fault(r)) /\ UNCHANGED users
       \/ /\ create_user_rejected(r.user_name)
          /\ Set(p, RaiseInTry(r))
          /\ UNCHANGED users
       \/ /\ ~create_user_rejected(r.user_name)
          /\ users' = users \cup {r.user_name}
          /\ Set(p, [Goto(r, "c_policy_exists") EXCEPT !.made = TRUE, !.kind = 1])
    /\ UNCHANGED <<policies, attached, keys, buckets, objects, files, pure>>

\* the check of the policy name left to the provider
policy_exists_unchecked(policy_name) == FALSE

\* lines 190-200
policy_exists(policy_name) == policy_name \in list_policies

\* create_and_add_policies, lines 96-100 and 107-111
c_policy_exists(p) ==
    LET r == Call(run[p], "list_policies")
        policy_name == user_policy_name(r.user_name, PolicyKinds[r.kind]) IN
    /\ run[p].pc = "c_policy_exists"
    /\ \/ Set(p, Fault(r))
       \/ Set(p, IF policy_exists(policy_name)
                 THEN ExitInTry(r, "Cannot create policy because it already exists")
                 ELSE Goto(r, "c_create_policy"))
    /\ UNCHANGED <<provider, files, pure>>

\* create_policy, lines 140-187: build the document and register it
c_create_policy(p) ==
    LET policy_name == user_policy_name(run[p].user_name, PolicyKinds[run[p].kind])
        doc == policy_doc(ActionOf(PolicyKinds[run[p].kind]),
                          run[p].bucket_name, run[p].user_name)
        r == [Call(run[p], "create_policy") EXCEPT !.built = Append(@, doc)] IN
    /\ run[p].pc = "c_create_policy"
    /\ \/ Set(p, Fault(r)) /\ UNCHANGED policies
       \/ /\ create_policy_rejected(policy_name)
          /\ Set(p, RaiseInTry(r))
          /\ UNCHANGED policies
       \/ /\ ~create_policy_rejected(policy_name)
          /\ policies' = policies @@ (policy_name :> JsonDumps(doc))
          /\ Set(p, Goto(r, "c_attach_policy"))
    /\ UNCHANGED <<users, attached, keys, buckets, objects, files, pure>>

\* the run attaching the first policy only
c_attach_policy_once(p) ==
    LET r == Call(run[p], "attach_policy")
        policy_name == user_policy_name(r.user_name, PolicyKinds[r.kind]) IN
    /\ run[p].pc = "c_attach_policy"
    /\ \/ Set(p, Fault(r)) /\ UNCHANGED attached
       \/ /\ attach_policy_rejected(r.user_name, policy_name)
          /\ Set(p, RaiseInTry(r))
          /\ UNCHANGED attached
       \/ /\ ~attach_policy_rejected(r.user_name, policy_name)
          /\ attached' = attached \cup {<<r.user_name, policy_name>>}
          /\ Set(p, Goto(r, "c_create_key"))
    /\ UNCHANGED <<users, policies, keys, buckets, objects, files, pure>>

\* lines 104 and 115
c_attach_policy(p) ==
    LET r == Call(run[p], "attach_policy")
        policy_name == user_policy_name(r.user_name, PolicyKinds[r.kind]) IN
    /\ run[p].pc = "c_attach_policy"
    /\ \/ Set(p, Fault(r)) /\ UNCHANGED attached
       \/ /\ attach_policy_rejected(r.user_name, policy_name)
          /\ Set(p, RaiseInTry(r))
          /\ UNCHANGED attached
       \/ /\ ~attach_policy_rejected(r.user_name, policy_name)
          /\ attached' = attached \cup {<<r.user_name, policy_name>>}
          /\ Set(p, IF r.kind < Len(PolicyKinds)
                    THEN [Goto(r, "c_policy_exists") EXCEPT !.kind = r.kind + 1]
                    ELSE Goto(r, "c_create_key"))
    /\ UNCHANGED <<users, policies, keys, buckets, objects, files, pure>>

Secret(id) == <<"secret", id>>

\* line 73; a key_pair of None ends in write_keys_to_csv, lines 216-217
c_create_key(p) ==
    LET r == Call(run[p], "create_key") IN
    /\ run[p].pc = "c_create_key"
    /\ \/ Set(p, Fault(r)) /\ UNCHANGED keys
       \/ /\ Set(p, ExitInTry([r EXCEPT !.faulted = TRUE],
                              "No keys available to save to csv"))
          /\ UNCHANGED keys
       \/ /\ create_key_rejected(r.user_name)
          /\ Set(p, RaiseInTry(r))
          /\ UNCHANGED keys
       \/ /\ ~create_key_rejected(r.user_name)
          /\ \E id \in KeyIds \ list_keys(r.user_name) :
               /\ keys' = keys \cup {<<r.user_name, id>>}
               /\ Set(p, [Goto(r, "c_write_keys")
                            EXCEPT !.key_pair = <<id, Secret(id)>>])
    /\ UNCHANGED <<users, policies, attached, buckets, objects, files, pure>>

CsvHeader == <<"Access key ID", "Secret access key">>

\* the rows without the header row
key_info_no_header(key_pair) == <<key_pair>>

\* lines 219-222: the rows of the file
key_info(key_pair) == <<CsvHeader, key_pair>>

\* write_keys_to_csv, lines 219-229, then the else clause, line 82
c_write_keys(p) ==
    LET r == Call(run[p], "write_keys_to_csv") IN
    /\ run[p].pc = "c_write_keys"
    /\ files' = [n \in DOMAIN files \cup {r.user_name} |->
                    IF n = r.user_name THEN key_info(r.key_pair)
                                       ELSE files[n]]
    /\ Set(p, Succeed(r))
    /\ UNCHANGED <<provider, pure>>


-----------------------------------------------------------------------------
(* delete_s3_user.py: delete_s3_user, lines 47-102 *)

\* the run going to the policies without looking for keys
d_list_keys_skipped(p) ==
    LET r == Call(run[p], "list_keys") IN
    /\ run[p].pc = "d_list_keys"
    /\ \/ Set(p, Fault(r))
       \/ Set(p, Goto(Warn(r, "No access keys found"), "d_list_policies"))
    /\ UNCHANGED <<provider, files, pure>>

\* lines 49-55; whether the provider answers a missing user with an error or
\* with no keys is the provider's choice
d_list_keys(p) ==
    LET r == Call(run[p], "list_keys")
        found == list_keys(r.user_name) IN
    /\ run[p].pc = "d_list_keys"
    /\ \/ Set(p, Fault(r))
       \/ /\ list_keys_rejected(r.user_name)
          /\ Set(p, RaiseInTry(r))
       \/ Set(p, IF found # {}
                 THEN [Goto(r, "d_delete_key") EXCEPT !.all_keys_for_user = found]
                 ELSE Goto(Warn(r, "No access keys found"), "d_list_policies"))
    /\ UNCHANGED <<provider, files, pure>>

\* lines 51-53, one turn of the loop
d_delete_key(p) ==
    LET r == Call(run[p], "delete_key")
        key == CHOOSE id \in r.all_keys_for_user :
                  \A other \in r.all_keys_for_user : id <= other
        left == r.all_keys_for_user \ {key} IN
    /\ run[p].pc = "d_delete_key"
    /\ \/ Set(p, Fault(r)) /\ UNCHANGED keys
       \/ /\ delete_key_rejected(r.user_name, key)
          /\ Set(p, RaiseInTry(r))
          /\ UNCHANGED keys
       \/ /\ ~delete_key_rejected(r.user_name, key)
          /\ keys' = keys \ {<<r.user_name, key>>}
          /\ Set(p, [Goto(r, IF left = {} THEN "d_list_policies" ELSE "d_delete_key")
                       EXCEPT !.all_keys_for_user = left])
    /\ UNCHANGED <<users, policies, attached, buckets, objects, files, pure>>

\* the loop leaving after the first policy name
PolicyLoopFirstOnly(r, k) ==
    IF k > 1 THEN Goto(r, "d_delete_user")
    ELSE IF user_policy_name(r.user_name, PolicyKinds[k]) \in r.listed_policies
    THEN [Goto(r, "d_detach_policy") EXCEPT !.kind = k]
    ELSE Goto(Warn(r, "Cannot find policy to remove: " \o PolicyKinds[k]),
              "d_delete_user")

\* the loop treating a policy that is not listed as fatal
PolicyLoopStrict(r, k) ==
    IF k > Len(PolicyKinds) THEN Goto(r, "d_delete_user")
    ELSE IF user_policy_name(r.user_name, PolicyKinds[k]) \in r.listed_policies
    THEN [Goto(r, "d_detach_policy") EXCEPT !.kind = k]
    ELSE ExitInTry(r, "Cannot find policy to remove")

\* lines 61-70 from the k-th policy name on: a name that is not listed is a
\* warning; a listed one is detached and deleted; after the last, line 73
RECURSIVE PolicyLoop(_, _)
PolicyLoop(r, k) ==
    IF k > Len(PolicyKinds) THEN Goto(r, "d_delete_user")
    ELSE IF user_policy_name(r.user_name, PolicyKinds[k]) \in r.listed_policies
    THEN [Goto(r, "d_detach_policy") EXCEPT !.kind = k]
    ELSE PolicyLoop(Warn(r, "Cannot find policy to remove: " \o PolicyKinds[k]),
                    k + 1)

\* line 58
d_list_policies(p) ==
    LET r == Call(run[p], "list_policies") IN
    /\ run[p].pc = "d_list_policies"
    /\ \/ Set(p, Fault(r))
       \/ Set(p, PolicyLoop([r EXCEPT !.listed_policies = list_policies], 1))
    /\ UNCHANGED <<provider, files, pure>>

\* line 67; detaching a policy that is not attached to the user is either
\* rejected by the provider or does nothing
d_detach_policy(p) ==
    LET r == Call(run[p], "detach_policy")
        policy_name == user_policy_name(r.user_name, PolicyKinds[r.kind]) IN
    /\ run[p].pc = "d_detach_policy"
    /\ \/ Set(p, Fault(r)) /\ UNCHANGED attached
       \/ /\ detach_policy_rejected(r.user_name, policy_name)
          /\ \/ Set(p, RaiseInTry(r))
             \/ Set(p, Goto(r, "d_delete_policy"))
          /\ UNCHANGED attached
       \/ /\ ~detach_policy_rejected(r.user_name, policy_name)
          /\ attached' = attached \ {<<r.user_name, policy_name>>}
          /\ Set(p, Goto(r, "d_delete_policy"))
    /\ UNCHANGED <<users, policies, keys, buckets, objects, files, pure>>

\* line 68
d_delete_policy(p) ==
    LET r == Call(run[p], "delete_policy")
        policy_name == user_policy_name(r.user_name, PolicyKinds[r.kind]) IN
    /\ run[p].pc = "d_delete_policy"
    /\ \/ Set(p, Fault(r)) /\ UNCHANGED policies
       \/ /\ delete_policy_rejected(policy_name)
          /\ Set(p, RaiseInTry(r))
          /\ UNCHANGED policies
       \/ /\ ~delete_policy_rejected(policy_name)
          /\ policies' = [n \in DOMAIN policies \ {policy_name} |-> policies[n]]
          /\ Set(p, PolicyLoop(r, r.kind + 1))
    /\ UNCHANGED <<users, attached, keys, buckets, objects, files, pure>>

\* line 74: no existence check; the provider rejects a user that is gone
d_delete_user(p) ==
    LET r == Call(run[p], "delete_user") IN
    /\ run[p].pc = "d_delete_user"
    /\ \/ Set(p, Fault(r)) /\ UNCHANGED users
       \/ /\ delete_user_rejected(r.user_name)
          /\ Set(p, RaiseInTry(r))
          /\ UNCHANGED users
       \/ /\ ~delete_user_rejected(r.user_name)
          /\ users' = users \ {r.user_name}
          /\ Set(p, Goto(r, "d_bucket_exists"))
    /\ UNCHANGED <<policies, attached, keys, buckets, objects, files, pure>>

\* lines 77-78
d_bucket_exists(p) ==
    LET r == Call(run[p], "bucket_exists") IN
    /\ run[p].pc = "d_bucket_exists"
    /\ \/ Set(p, Fault(r))
       \/ Set(p, ExitInTry([r EXCEPT !.faulted = TRUE], "Bucket does not exist"))
       \/ Set(p, IF ~bucket_exists(r.bucket_name)
                 THEN ExitInTry(r, "Bucket does not exist")
                 ELSE Goto(r, "d_count_objects"))
    /\ UNCHANGED <<provider, files, pure>>

\* the prefix without its slash
object_prefix_bare(user_name) == user_name

\* line 83: prefix = f'{user_name}/'
object_prefix(user_name) == user_name \o <<"/">>

\* bucket.objects.filter(Prefix=prefix)
Filter(bucket_name, prefix) ==
    {o \in objects : o[1] = bucket_name /\ StartsWith(o[2], prefix)}

\* lines 85-94: count the objects under the prefix
d_count_objects(p) ==
    LET r == Call(run[p], "objects.filter")
        user_object_count ==
            Cardinality(Filter(r.bucket_name, object_prefix(r.user_name))) IN
    /\ run[p].pc = "d_count_objects"
    /\ \/ Set(p, Fault(r))
       \/ /\ ~bucket_exists(r.bucket_name)
          /\ Set(p, RaiseInTry(r))
       \/ /\ bucket_exists(r.bucket_name)
          /\ Set(p, IF user_object_count > 0
                    THEN Goto(r, "d_delete_objects")
                    ELSE Succeed(Warn(r, "No objects found")))
    /\ UNCHANGED <<provider, files, pure>>

\* line 92: the batch delete; a failing batch may have deleted some of the
\* objects, never all of them
d_delete_objects(p) ==
    LET r == Call(run[p], "objects.delete")
        matching == Filter(r.bucket_name, object_prefix(r.user_name)) IN
    /\ run[p].pc = "d_delete_objects"
    /\ \/ \E gone \in SUBSET matching :
            /\ gone # matching \/ matching = {}
            /\ objects' = objects \ gone
            /\ Set(p, Fault(r))
       \/ /\ ~bucket_exists(r.bucket_name)
          /\ Set(p, RaiseInTry(r))
          /\ UNCHANGED objects
       \/ /\ bucket_exists(r.bucket_name)
          /\ objects' = objects \ matching
          /\ Set(p, Succeed(r))
    /\ UNCHANGED <<users, policies, attached, keys, buckets, files, pure>>

-----------------------------------------------------------------------------
(* The storage account outside the scripts: buckets come and go *)

Forget == run' = [p \in Procs |-> IdleRun]

EnvCreateBucket(b) ==
    /\ NoRunInProgress
    /\ b \notin buckets
    /\ buckets' = buckets \cup {b}
    /\ objects' = objects \cup PopulatedObjects({b})
    /\ Forget
    /\ UNCHANGED <<users, policies, attached, keys, files, prev, pure>>

EnvDeleteBucket(b) ==
    /\ NoRunInProgress
    /\ b \in buckets
    /\ buckets' = buckets \ {b}
    /\ objects' = {o \in objects : o[1] # b}
    /\ Forget
    /\ UNCHANGED <<users, policies, attached, keys, files, prev, pure>>

-----------------------------------------------------------------------------
(* Runs one after the other *)

Scripts == {"create", "delete"}

StartRun ==
    /\ NoRunInProgress
    /\ \E script \in Scripts, b \in Buckets, u \in UserArgs :
          Begin("p1", script, b, u)

StartRunNoArgs ==
    /\ NoRunInProgress
    /\ \E script \in Scripts : BeginNoArgs("p1", script)

\* one step of a provisioning run
CreateStep(p) ==
    \/ c_bucket_exists(p)
    \/ c_list_users(p)
    \/ c_create_user(p)
    \/ c_policy_exists(p)
    \/ c_create_policy(p)
    \/ c_attach_policy(p)
    \/ c_create_key(p)
    \/ c_write_keys(p)

Step(p) ==
    \/ CreateStep(p)
    \/ d_list_keys(p)
    \/ d_delete_key(p)
    \/ d_list_policies(p)
    \/ d_detach_policy(p)
    \/ d_delete_policy(p)
    \/ d_delete_user(p)
    \/ d_bucket_exists(p)
    \/ d_count_objects(p)
    \/ d_delete_objects(p)

Env == \E b \in Transient : EnvCreateBucket(b) \/ EnvDeleteBucket(b)

Next ==
    \/ StartRun
    \/ StartRunNoArgs
    \/ \E p \in Procs : Step(p)
    \/ Env

Spec == Init /\ [][Next]_vars

-----------------------------------------------------------------------------
(* Two provisioning runs at once, for the same bucket and user *)

\* the run p starts while the other may be anywhere in its own run
BeginRace(p) ==
    /\ run[p].pc = "idle"
    /\ \E b \in Buckets :
          /\ \A q \in Procs : run[q].pc # "idle" => run[q].bucket_name = b
          /\ Begin(p, "create", b, U1)

NextRace == \E p \in Procs : BeginRace(p) \/ CreateStep(p)

SpecRace == Init /\ [][NextRace]_vars


-----------------------------------------------------------------------------
(* is_valid_user_name applied to every string of the bounded alphabet *)

Idle ==
    /\ users = {} /\ policies = <<>> /\ attached = {} /\ keys = {}
    /\ buckets = {} /\ objects = {} /\ files = <<>>
    /\ run = [p \in Procs |-> IdleRun]
    /\ prev = NoPrev

InitValid ==
    /\ Idle
    /\ vin \in Strings(MaxLen)
    /\ vout = <<>>
    /\ vpc = "in"

Validate ==
    /\ vpc = "in"
    /\ vout' = <<is_valid_user_name(vin)>>
    /\ vpc' = "out"
    /\ UNCHANGED <<provider, files, run, prev, vin>>

SpecValid == InitValid /\ [][Validate]_vars

\* the grammar of the docstring: one or more letters, numbers, underscores
\* and dashes, and nothing else
InGrammar(s) == Len(s) >= 1 /\ \A i \in 1..Len(s) : s[i] \in CharClass

\* C8: is_valid_user_name(s) is true for every s of length >= 1 made only of
\* ASCII letters, digits, underscore and dash, and false for the empty string
\* and for every string with any other character, a single trailing newline
\* included.
ValidatorIsTheGrammar == vpc = "out" => vout = <<InGrammar(vin)>>

-----------------------------------------------------------------------------
(* The two documents create_and_add_policies builds for one bucket and user *)

\* the characters of the bucket and user names of SpecBuild
NameAlphabet == {"a", "-", "/"}
\* their greatest length
MaxNameLen == 2

Names == UNION {[1..k -> NameAlphabet] : k \in 0..MaxNameLen}

InitBuild ==
    /\ Idle
    /\ vin \in Names \X Names
    /\ vout = <<>>
    /\ vpc = "in"

\* lines 98-103 and 109-114: the list document, then the get document
Build ==
    /\ vpc = "in"
    /\ vout' = [kind \in {"list", "get"} |->
                   policy_doc(ActionOf(kind), vin[1], vin[2])]
    /\ vpc' = "out"
    /\ UNCHANGED <<provider, files, run, prev, vin>>

SpecBuild == InitBuild /\ [][Build]_vars

Range(f) == {f[i] : i \in DOMAIN f}

\* C9: the s3:GetObject document has the resource arn:aws:s3:::B/U/* and no
\* condition; the s3:ListBucket document has the resource arn:aws:s3:::B and
\* a condition with prefixes exactly {"", "U/"} and delimiter "/"; the "U/" of
\* the condition is the one inside the get resource.
PolicyDocuments ==
    vpc = "out" =>
        LET B == vin[1]
            U == vin[2]
            get == vout["get"].Statement[1]
            list == vout["list"].Statement[1]
            eq == list.Condition.StringEquals
        IN /\ Len(vout["get"].Statement) = 1 /\ Len(vout["list"].Statement) = 1
           /\ get.Action = "s3:GetObject" /\ list.Action = "s3:ListBucket"
           /\ get.Effect = "Allow" /\ list.Effect = "Allow"
           /\ get.Resource = <<"arn:aws:s3:::">> \o B \o <<"/">> \o U \o <<"/", "*">>
           /\ "Condition" \notin DOMAIN get
           /\ list.Resource = <<"arn:aws:s3:::">> \o B
           /\ DOMAIN eq = {"s3:prefix", "s3:delimiter"}
           /\ Range(eq["s3:prefix"]) = {<<>>, U \o <<"/">>}
           /\ Range(eq["s3:delimiter"]) = {<<"/">>}
           /\ \E folder \in Range(eq["s3:prefix"]) :
                 /\ folder # <<>>
                 /\ get.Resource = list.Resource \o <<"/">> \o folder \o <<"*">>

\* a user name with a separator inside: the documents are built all the same
WitnessPolicyDocuments ==
    /\ vpc = "out"
    /\ vin[1] = <<"a", "-">>
    /\ vin[2] = <<"a", "/">>
    /\ vout["list"].Statement[1].Condition.StringEquals["s3:prefix"][2]
         = <<"a", "/", "/">>


-----------------------------------------------------------------------------
(* Properties of the runs (Spec: one run after the other, as process p1) *)

R == run["p1"]

Ended(script) == R.pc = "done" /\ R.script = script /\ R.argv_ok

\* the run that finished just before this one was `script` with the same
\* bucket and user
Follows(script) ==
    /\ R.after.script = script
    /\ R.after.bucket_name = R.bucket_name
    /\ R.after.user_name = R.user_name

ListName(u) == u \o <<"-", "list">>
GetName(u) == u \o <<"-", "get">>

KeysOf(ks, u) == {k \in ks : k[1] = u}

\* the user, its two policies and its credentials are gone
IdentityAbsent(u) ==
    /\ u \notin users
    /\ ListName(u) \notin DOMAIN policies
    /\ GetName(u) \notin DOMAIN policies
    /\ KeysOf(keys, u) = {}

Under(objs, b, u) ==
    {o \in objs : o[1] = b /\ StartsWith(o[2], u \o <<"/">>)}

\* C1: after create_s3_user(B,U) ended with Success and delete_s3_user(B,U)
\* then ran with no provider failure, user U, the policies U-list and U-get
\* and U's credentials do not exist and B holds no object under "U/".
RoundTrip ==
    (Ended("delete") /\ Follows("create") /\ R.after.result = "Success"
        /\ ~R.faulted)
    => /\ IdentityAbsent(R.user_name)
       /\ Under(objects, R.bucket_name, R.user_name) = {}

WitnessRoundTrip ==
    /\ Ended("delete") /\ Follows("create") /\ R.after.result = "Success"
    /\ ~R.faulted
    /\ Result(R) = "Success"
    /\ R.user_name \in R.pre.users
    /\ Under(R.pre.objects, R.bucket_name, R.user_name) # {}

\* what a provisioning run is to leave behind
Provisioned ==
    LET u == R.user_name
        new == {ListName(u), GetName(u)} IN
    /\ Result(R) = "Success"
    /\ users = R.pre.users \cup {u}
    /\ DOMAIN policies = DOMAIN R.pre.policies \cup new
    /\ DOMAIN R.pre.policies \cap new = {}
    /\ \A n \in DOMAIN R.pre.policies : policies[n] = R.pre.policies[n]
    /\ attached = R.pre.attached \cup {<<u, n>> : n \in new}
    /\ Cardinality(keys \ R.pre.keys) = 1
    /\ R.pre.keys \subseteq keys
    /\ \A k \in keys \ R.pre.keys : k[1] = u /\ k[2] = R.key_pair[1]
    /\ DOMAIN files = DOMAIN R.pre.files \cup {u}
    /\ \A n \in DOMAIN R.pre.files \ {u} : files[n] = R.pre.files[n]
    /\ Len(files[u]) = 2
    /\ files[u][2] = R.key_pair

\* C2 as stated: with bucket B existing, no user named U, U valid and no
\* provider call failing, create_s3_user(B,U) creates the user, creates and
\* attaches exactly U-list and U-get, issues exactly one credential pair and
\* writes exactly one file, of 2 rows.
ProvisionsNewUser ==
    (Ended("create") /\ R.bucket_name \in R.pre.buckets
        /\ R.user_name \notin R.pre.users /\ InGrammar(R.user_name)
        /\ ~R.faulted)
    => Provisioned

\* C2 amended: the same, provided neither U-list nor U-get is the name of a
\* policy that exists already.
ProvisionsNewUserFreeNames ==
    (Ended("create") /\ R.bucket_name \in R.pre.buckets
        /\ R.user_name \notin R.pre.users /\ InGrammar(R.user_name)
        /\ ListName(R.user_name) \notin DOMAIN R.pre.policies
        /\ GetName(R.user_name) \notin DOMAIN R.pre.policies
        /\ ~R.faulted)
    => Provisioned

WitnessProvisionsNewUser ==
    /\ Ended("create") /\ ~R.faulted /\ Provisioned
    /\ R.user_name \notin R.pre.users
    /\ R.user_name \in DOMAIN R.pre.files

\* C3: when the bucket does not exist, or the name fails the check, or a user
\* of that name exists, create_s3_user ends with an ERROR line and users,
\* policies, attachments, credentials and the local files are as before.
ValidationHasNoEffect ==
    (Ended("create")
        /\ \/ R.bucket_name \notin R.pre.buckets
           \/ ~is_valid_user_name(R.user_name)
           \/ R.user_name \in R.pre.users)
    => /\ Result(R) = "Error"
       /\ users = R.pre.users
       /\ policies = R.pre.policies
       /\ attached = R.pre.attached
       /\ keys = R.pre.keys
       /\ files = R.pre.files

\* a name in use, given with a bucket that exists, to a healthy provider, in
\* an account that holds policies, credentials and a file
WitnessValidationHasNoEffect ==
    /\ Ended("create") /\ ~R.faulted /\ Result(R) = "Error"
    /\ R.user_name \in R.pre.users /\ R.bucket_name \in R.pre.buckets
    /\ keys # {} /\ attached # {} /\ files # <<>>


\* C4 as stated: a delete_s3_user(B,U) run that follows a delete_s3_user(B,U)
\* run, however that one ended, with B present and no provider failure, does
\* not end in an error and leaves user U, its credentials, U-list, U-get and
\* the objects under "U/" in B absent.
DeleteIsRerunnable ==
    (Ended("delete") /\ Follows("delete")
        /\ R.bucket_name \in R.pre.buckets /\ ~R.faulted)
    => /\ Result(R) # "Error"
       /\ IdentityAbsent(R.user_name)
       /\ Under(objects, R.bucket_name, R.user_name) = {}

\* C5 as stated: a delete_s3_user(B,U) run that follows a create_s3_user(B,U)
\* run which aborted after creating user U, with B present and no provider
\* failure, ends with Success and leaves user U, U-list, U-get and U's
\* credentials absent.
DeleteCleansPartialCreate ==
    (Ended("delete") /\ Follows("create")
        /\ R.after.result = "Error" /\ R.after.made
        /\ R.bucket_name \in R.pre.buckets /\ ~R.faulted)
    => /\ Result(R) = "Success"
       /\ IdentityAbsent(R.user_name)

\* C6: delete_s3_user(B,U) for an existing user U with no credentials and
\* neither U-list nor U-get, with B present and no provider failure, warns of
\* the missing credentials and policies, deletes U, checks the bucket, goes
\* through the deletion of the objects under "U/" and ends with Success.
DeleteBareUser ==
    (Ended("delete") /\ R.user_name \in R.pre.users
        /\ KeysOf(R.pre.keys, R.user_name) = {}
        /\ ListName(R.user_name) \notin DOMAIN R.pre.policies
        /\ GetName(R.user_name) \notin DOMAIN R.pre.policies
        /\ R.bucket_name \in R.pre.buckets /\ ~R.faulted)
    => /\ Result(R) = "Success"
       /\ Len(R.stdout) = 1
       /\ {"No access keys found", "Cannot find policy to remove: list",
           "Cannot find policy to remove: get"} \subseteq R.warnings
       /\ users = R.pre.users \ {R.user_name}
       /\ \E i, j, k \in 1..Len(R.calls) :
             /\ i < j /\ j < k
             /\ R.calls[i] = "delete_user"
             /\ R.calls[j] = "bucket_exists"
             /\ R.calls[k] = "objects.filter"
       /\ Under(objects, R.bucket_name, R.user_name) = {}

WitnessDeleteBareUser ==
    /\ Ended("delete") /\ R.user_name \in R.pre.users
    /\ KeysOf(R.pre.keys, R.user_name) = {}
    /\ ListName(R.user_name) \notin DOMAIN R.pre.policies
    /\ GetName(R.user_name) \notin DOMAIN R.pre.policies
    /\ R.bucket_name \in R.pre.buckets /\ ~R.faulted
    /\ Under(R.pre.objects, R.bucket_name, R.user_name) # {}
    /\ objects # R.pre.objects

\* C7: in and after a delete_s3_user(B,U) run, whatever step it is at or
\* ended at, every object that was stored before the run and is not in B
\* under "U/" is still stored: the keys under a sibling prefix such as
\* "U2/", the key "U", and the objects of every other bucket.
DeletionIsScoped ==
    (R.script = "delete" /\ R.argv_ok)
    => \A o \in R.pre.objects :
          (o[1] # R.bucket_name \/ ~StartsWith(o[2], R.user_name \o <<"/">>))
          => o \in objects

\* the objects under "u/" went, "u2/x" and "u" of the same bucket stayed
WitnessDeletionIsScoped ==
    /\ Ended("delete") /\ Result(R) = "Success"
    /\ R.user_name = U1
    /\ <<R.bucket_name, <<"u", "/", "x">> >> \in R.pre.objects \ objects
    /\ <<R.bucket_name, <<"u", "2", "/", "x">> >> \in objects
    /\ <<R.bucket_name, <<"u">> >> \in objects
    /\ \E o \in objects : o[1] # R.bucket_name

OneLine(r) ==
    /\ Len(r.stdout) = 1
    /\ r.stdout[1][1] \in {"Success!", "ERROR. Exiting."}

-----------------------------------------------------------------------------
(* The order of the steps of a run *)

\* the place of a provider call in delete_s3_user, lines 49-92
DeleteRank(call) ==
    CASE call = "list_keys" -> 1
      [] call = "delete_key" -> 2
      [] call = "list_policies" -> 3
      [] call \in {"detach_policy", "delete_policy"} -> 4
      [] call = "delete_user" -> 5
      [] call = "bucket_exists" -> 6
      [] call = "objects.filter" -> 7
      [] call = "objects.delete" -> 8
      [] OTHER -> 0

Count(calls, call) == Cardinality({i \in 1..Len(calls) : calls[i] = call})

\* the calls of a deprovisioning run come in the order of the steps; each
\* policy is detached, then deleted, before the next one is touched
DeleteCallOrder(calls) ==
    /\ \A i \in 1..Len(calls) : DeleteRank(calls[i]) > 0
    /\ \A i \in 1..(Len(calls) - 1) :
          /\ DeleteRank(calls[i]) <= DeleteRank(calls[i + 1])
          /\ calls[i] = "detach_policy" =>
                calls[i + 1] = "delete_policy"
          /\ calls[i + 1] = "delete_policy" => calls[i] = "detach_policy"
    /\ \A c \in {"list_keys", "list_policies", "delete_user", "bucket_exists",
                 "objects.filter", "objects.delete"} : Count(calls, c) <= 1
    /\ Count(calls, "detach_policy") <= Len(PolicyKinds)

\* the policy of this name is as it was before the run
Untouched(n, u) ==
    /\ n \in DOMAIN policies <=> n \in DOMAIN R.pre.policies
    /\ n \in DOMAIN policies => policies[n] = R.pre.policies[n]
    /\ <<u, n>> \in attached <=> <<u, n>> \in R.pre.attached

\* C11: in a delete_s3_user(B,U) run the calls come in the order list and
\* delete keys, detach and delete U-list, detach and delete U-get, delete
\* user U, check bucket B, delete the objects under "U/"; at every step and
\* at the end, a step that has had an effect finds the effects of all the
\* steps before it complete, so nothing of a later step happens once a step
\* has failed; and a run that gets to the check of a bucket that does not
\* exist ends with an ERROR line, U's keys, policies and user deleted and
\* every object still stored.
DeleteStepsInOrder ==
    (R.script = "delete" /\ R.argv_ok) =>
        LET u == R.user_name IN
        /\ DeleteCallOrder(R.calls)
        /\ (~Untouched(ListName(u), u) \/ ~Untouched(GetName(u), u))
              => KeysOf(keys, u) = {}
        /\ ~Untouched(GetName(u), u) => ListName(u) \notin DOMAIN policies
        /\ users # R.pre.users
              => /\ users = R.pre.users \ {u}
                 /\ IdentityAbsent(u)
        /\ objects # R.pre.objects
              => /\ IdentityAbsent(u)
                 /\ R.bucket_name \in buckets
                 /\ Count(R.calls, "bucket_exists") = 1
        /\ (R.pc = "done" /\ R.bucket_name \notin R.pre.buckets)
              => /\ Result(R) = "Error"
                 /\ objects = R.pre.objects
                 /\ Count(R.calls, "bucket_exists") = 1 => IdentityAbsent(u)

\* a provisioned user deleted against a bucket that is gone: the run ends at
\* the bucket check, the user, its keys and its policies already deleted
WitnessDeleteStepsInOrder ==
    /\ Ended("delete") /\ ~R.faulted
    /\ R.bucket_name \notin R.pre.buckets
    /\ R.user_name \in R.pre.users
    /\ KeysOf(R.pre.keys, R.user_name) # {}
    /\ {ListName(R.user_name), GetName(R.user_name)} \subseteq DOMAIN R.pre.policies
    /\ R.stdout = <<ErrorLine("Bucket does not exist")>>
    /\ IdentityAbsent(R.user_name)
    /\ objects = R.pre.objects /\ objects # {}
    /\ R.calls[Len(R.calls)] = "bucket_exists"

\* the calls of create_s3_user, lines 56-74, in the order of the source
CreateSequence ==
    <<"bucket_exists", "list_users", "create_user",
      "list_policies", "create_policy", "attach_policy",
      "list_policies", "create_policy", "attach_policy",
      "create_key", "write_keys_to_csv">>

IsPrefix(s, t) == Len(s) <= Len(t) /\ \A i \in 1..Len(s) : s[i] = t[i]

\* what the run has added to the account so far
Registered(n) == n \in DOMAIN policies \ DOMAIN R.pre.policies
Attached(u, n) == <<u, n>> \in attached \ R.pre.attached

\* nothing that was there before the run has been taken away or changed
NothingUndone ==
    /\ R.pre.users \subseteq users
    /\ DOMAIN R.pre.policies \subseteq DOMAIN policies
    /\ \A n \in DOMAIN R.pre.policies : policies[n] = R.pre.policies[n]
    /\ R.pre.attached \subseteq attached
    /\ R.pre.keys \subseteq keys
    /\ DOMAIN R.pre.files \subseteq DOMAIN files
    /\ \A n \in DOMAIN R.pre.files \ {R.user_name} : files[n] = R.pre.files[n]
    /\ objects = R.pre.objects

\* a policy named U-get exists, and nothing else stands in the way of the run
GetNameTaken ==
    /\ GetName(R.user_name) \in DOMAIN R.pre.policies
    /\ ListName(R.user_name) \notin DOMAIN R.pre.policies
    /\ R.bucket_name \in R.pre.buckets
    /\ R.user_name \notin R.pre.users
    /\ InGrammar(R.user_name)
    /\ ~R.faulted

\* C12: in a create_s3_user(B,U) run the calls are a prefix of: the checks,
\* create user, (check the name, register, attach) for U-list and then for
\* U-get, create key, write the file; each effect is there only when all the
\* effects before it are, and what a run did stays when it fails; with a
\* policy named U-get already there, the run ends with 'Cannot create policy
\* because it already exists', U created, U-list registered and attached, no
\* key issued and no file written.
CreateStepsInOrder ==
    (R.script = "create" /\ R.argv_ok) =>
        LET u == R.user_name IN
        /\ IsPrefix(R.calls, CreateSequence)
        /\ NothingUndone
        /\ Registered(ListName(u)) => u \in users \ R.pre.users
        /\ Attached(u, ListName(u)) => Registered(ListName(u))
        /\ Registered(GetName(u)) => Attached(u, ListName(u))
        /\ Attached(u, GetName(u)) => Registered(GetName(u))
        /\ keys # R.pre.keys => Attached(u, GetName(u))
        /\ files # R.pre.files => keys # R.pre.keys
        /\ Result(R) = "Success" => files # R.pre.files \/ u \in DOMAIN R.pre.files
        /\ (R.pc = "done" /\ GetNameTaken)
              => /\ R.stdout = <<ErrorLine("Cannot create policy because it already exists")>>
                 /\ u \in users
                 /\ Registered(ListName(u)) /\ Attached(u, ListName(u))
                 /\ ~Attached(u, GetName(u))
                 /\ keys = R.pre.keys
                 /\ files = R.pre.files
                 /\ Len(R.calls) = 7

WitnessCreateStepsInOrder ==
    /\ Ended("create") /\ GetNameTaken
    /\ R.user_name \in users
    /\ Attached(R.user_name, ListName(R.user_name))
    /\ policies[GetName(R.user_name)] = ForeignDocument
    /\ KeysOf(keys, R.user_name) = {}

-----------------------------------------------------------------------------
(* The two policies of a user *)

BothNames(u) == {ListName(u), GetName(u)}

\* the names of U's policies the run found in the list of the provider
Found(r) == BothNames(r.user_name) \cap r.listed_policies

KindOf(n, u) == IF n = ListName(u) THEN "list" ELSE "get"

-----------------------------------------------------------------------------
(* Properties of two provisioning runs at once (SpecRace) *)

\* the runs whose create_user made the user
Makers == {p \in Procs : run[p].made}

\* the run passed the check of the name and went on to create_user
PassedNameCheck(r) == Count(r.calls, "create_user") = 1

\* what only a run that made the user gets to call
AfterCreateUser ==
    {"list_policies", "create_policy", "attach_policy", "create_key",
     "write_keys_to_csv"}

\* C14: of two create_s3_user(B,U) runs interleaved call by call, both may
\* have passed the check of the name before either creates the user; the
\* user is made by at most one of them, and by exactly one when both got to
\* create_user and no provider call failed; at most one run ends with
\* Success, and a run that did not make the user registers no policy,
\* attaches none, issues no key and writes no file.
RaceHasOneWinner ==
    /\ Cardinality(Makers) <= 1
    /\ Cardinality({p \in Procs : Result(run[p]) = "Success"}) <= 1
    /\ \A p \in Procs :
          /\ Result(run[p]) = "Success" => p \in Makers
          /\ p \notin Makers =>
                /\ \A i \in 1..Len(run[p].calls) :
                      run[p].calls[i] \notin AfterCreateUser
                /\ run[p].built = <<>>
                /\ run[p].key_pair = <<>>
    /\ Makers = {} =>
          /\ \A p \in Procs : run[p].pc # "idle" =>
                /\ policies = run[p].pre.policies
                /\ attached = run[p].pre.attached
                /\ keys = run[p].pre.keys
                /\ files = run[p].pre.files
    /\ (\A p \in Procs : /\ run[p].pc = "done" /\ ~run[p].faulted
                          /\ PassedNameCheck(run[p]))
          => /\ Cardinality(Makers) = 1
             /\ U1 \in users
    /\ Cardinality(KeysOf(keys, U1)) <= 1
    /\ Cardinality(attached) <= Len(PolicyKinds)

\* both runs passed the check, one made the user and ended with Success, the
\* other had its create_user rejected
WitnessRaceHasOneWinner ==
    /\ \A p \in Procs : /\ run[p].pc = "done" /\ ~run[p].faulted
                         /\ PassedNameCheck(run[p])
    /\ Result(run["p1"]) = "Error"
    /\ run["p1"].stdout = <<ErrorLine("Error of type")>>
    /\ Result(run["p2"]) = "Success"
    /\ run["p1"].pre.users = {} /\ run["p2"].pre.users = {}
    /\ BothNames(U1) \subseteq DOMAIN policies

-----------------------------------------------------------------------------
(* Credentials and the policies that scope them *)

Scoped(u) ==
    /\ BothNames(u) \subseteq DOMAIN policies
    /\ \A n \in BothNames(u) : <<u, n>> \in attached

\* C15: in every state of every sequence of runs one after the other, at any
\* step of a run and after it ended or aborted, a user that holds a key has
\* U-list and U-get registered and attached; a create_s3_user run has called
\* create_key only with both attached, and a delete_s3_user run has called
\* detach_policy or delete_policy only with no key of U left.
KeysAreScoped ==
    /\ \A u \in UserArgs : KeysOf(keys, u) # {} => Scoped(u)
    /\ (R.script = "create" /\ Count(R.calls, "create_key") > 0)
          => Scoped(R.user_name)
    /\ (R.script = "delete"
          /\ Count(R.calls, "detach_policy") + Count(R.calls, "delete_policy") > 0)
          => KeysOf(keys, R.user_name) = {}

\* a deprovisioning run that aborted at the deletion of the key: the key is
\* still there, and so are both policies
WitnessKeysAreScoped ==
    /\ Ended("delete") /\ R.faulted
    /\ R.calls[Len(R.calls)] = "delete_key"
    /\ KeysOf(keys, R.user_name) # {}
    /\ Scoped(R.user_name)
    /\ R.after.script = "delete"


====
